---- MODULE Spec2Model ----
(***************************************************************************)
(* A model of gdrive-folder-sync: the SyncEngine (push, pull, the conflict *)
(* decision, the folder resolver), the Watcher that schedules it, the      *)
(* local directory and the remote Drive tree.                              *)
(*                                                                         *)
(* A file or folder NAME is a sequence of chunks whose concatenation is    *)
(* the name, so that "equals" and "ends with" are different tests:         *)
(* <<"x", ".DS_Store">> is the name x.DS_Store.  A PATH is a sequence of   *)
(* names, one per segment.  A mime type is a sequence of chunks too.       *)
(* Times are natural numbers (milliseconds since the epoch in the code).   *)
(***************************************************************************)
EXTENDS Integers, Sequences, FiniteSets, TLC

\* ------------------------------------------------------------------ bounds
\* the changes made by other programs and the runs of the daemon in one
\* behaviour
MaxChanges == 2
MaxRuns == 2
\* caps of the clock and of the remote IDs
MaxClock == 8
MaxId == 6
\* the remote call of a pass that is made to fail is one of the first MaxFail
MaxFail == 3
\* the times the conflict decision is tried on
MaxTime == 3

\* --------------------------------------------------------------- sequences
Range(s) == {s[i] : i \in 1..Len(s)}

Last(s) == s[Len(s)]

Front(s) == SubSeq(s, 1, Len(s) - 1)

Perms(S) == {s \in [1..Cardinality(S) -> S] : Range(s) = S}

\* String.prototype.endsWith / startsWith on chunked names
EndsWith(n, f) == Len(n) >= Len(f) /\ SubSeq(n, Len(n) - Len(f) + 1, Len(n)) = f

StartsWith(n, f) == Len(n) >= Len(f) /\ SubSeq(n, 1, Len(f)) = f

IsPrefix(d, p) == Len(d) <= Len(p) /\ SubSeq(p, 1, Len(d)) = d

\* ------------------------------------------------------------------ config
CONFIG_FILENAME == <<".gdrive-folder-sync.json">>

STATE_FILENAME == <<".gdrive-folder-sync-state.json">>

DS_STORE == <<".DS_Store">>

getExcludedFiles == <<CONFIG_FILENAME, STATE_FILENAME, DS_STORE>>

\* config.localPath and config.gdriveFolderId
localPath == << <<"sync">> >>

gdriveFolderId == 0

\* ------------------------------------------------------------ path helpers
basename(p) == Last(p)

dirname(p) == Front(p)

\* path.join(config.localPath, relativePath)
joinLocal(relativePath) == localPath \o relativePath

\* path.relative(config.localPath, absolutePath)
getRelativePath(absolutePath) ==
    IF IsPrefix(localPath, absolutePath)
    THEN SubSeq(absolutePath, Len(localPath) + 1, Len(absolutePath))
    ELSE << <<"..">> >> \o absolutePath

\* excluded.includes(path.basename(relativePath))
isExcluded(relativePath) ==
    \E i \in 1..Len(getExcludedFiles) : basename(relativePath) = getExcludedFiles[i]

\* ------------------------------------------------------------- mime types
GoogleAppsPrefix == <<"application/vnd.google-apps.">>

FolderMime == <<"application/vnd.google-apps.", "folder">>

DocMime == <<"application/vnd.google-apps.", "document">>

PlainMime == <<"application/octet-stream">>

\* -------------------------------------------------------- maps (objects)
Put(f, k, v) == [x \in (DOMAIN f) \cup {k} |-> IF x = k THEN v ELSE f[x]]

Remove(f, k) == [x \in (DOMAIN f) \ {k} |-> f[x]]

EmptyMap == [x \in {} |-> 0]

\* the key order of a JS object: an assignment to a new key appends it,
\* an assignment to an existing key keeps its place, delete removes it
SetKey(keys, k) == IF k \in Range(keys) THEN keys ELSE Append(keys, k)

DelKey(keys, k) == SelectSeq(keys, LAMBDA x : x # k)

\* ------------------------------------------------------- local filesystem
\* the local filesystem is a map from absolute file path to
\* [mtime, content]; a directory exists when a file lies below it
isDirectory(fs, absolutePath) ==
    \E q \in DOMAIN fs : IsPrefix(absolutePath, q) /\ q # absolutePath

existsSync(fs, absolutePath) ==
    absolutePath \in DOMAIN fs \/ isDirectory(fs, absolutePath)

\* ------------------------------------------------------------ remote tree
\* the remote tree is a set of objects
\* [id, name, parent, mimeType, mtime, content]; a deleted object is gone
GDriveFile(id, name, parent, mimeType, mtime, content) ==
    [id |-> id, name |-> name, parent |-> parent, mimeType |-> mimeType,
     mtime |-> mtime, content |-> content]

isFolder(o) == o.mimeType = FolderMime

\* GDriveClient.listFiles: the children of a folder
listFiles(remoteTree, folderId) == {o \in remoteTree : o.parent = folderId}

\* GDriveClient.listFilesRecursive: the <<path, object>> entries the
\* traversal puts into its result map; a folder is expanded, never entered
RECURSIVE listEntries(_, _, _)
listEntries(remoteTree, folderId, basePath) ==
    UNION { IF isFolder(file)
            THEN listEntries(remoteTree, file.id, basePath \o <<file.name>>)
            ELSE {<<basePath \o <<file.name>>, file>>}
          : file \in listFiles(remoteTree, folderId) }

\* the result maps the traversal can return: result.set keeps, for a path
\* that several objects share, the one the API happened to list last
listFilesRecursive(remoteTree, folderId) ==
    LET entries == listEntries(remoteTree, folderId, <<>>)
        paths == {e[1] : e \in entries}
    IN  {m \in [paths -> {e[2] : e \in entries}] :
            \A p \in paths : <<p, m[p]>> \in entries}

\* ------------------------------------------------- the conflict decision
\* shouldDownloadFile as it would be if a conflict let the remote win a tie
shouldDownloadFile_TieRemote(files, fs, relativePath, absolutePath, remoteMtime) ==
    IF relativePath \notin DOMAIN files
    THEN IF ~existsSync(fs, absolutePath)
         THEN "download"
         ELSE IF remoteMtime > fs[absolutePath].mtime THEN "download" ELSE "local-newer"
    ELSE IF remoteMtime <= files[relativePath].gdriveMtime
         THEN "skip"
         ELSE IF ~existsSync(fs, absolutePath)
              THEN "download"
              ELSE IF fs[absolutePath].mtime <= files[relativePath].localMtime
                   THEN "download"
                   ELSE IF remoteMtime >= fs[absolutePath].mtime
                        THEN "download"
                        ELSE "local-newer"

\* shouldDownloadFile as it would be if a path without a record were always
\* downloaded
shouldDownloadFile_NewAlways(files, fs, relativePath, absolutePath, remoteMtime) ==
    IF relativePath \notin DOMAIN files
    THEN "download"
    ELSE IF remoteMtime <= files[relativePath].gdriveMtime
         THEN "skip"
         ELSE IF ~existsSync(fs, absolutePath)
              THEN "download"
              ELSE IF fs[absolutePath].mtime <= files[relativePath].localMtime
                   THEN "download"
                   ELSE IF remoteMtime > fs[absolutePath].mtime
                        THEN "download"
                        ELSE "local-newer"

\* shouldDownloadFile as it would be if the last comparison had no else
\* branch: a conflict that the remote does not win returns nothing
shouldDownloadFile_NoElse(files, fs, relativePath, absolutePath, remoteMtime) ==
    IF relativePath \notin DOMAIN files
    THEN IF ~existsSync(fs, absolutePath)
         THEN "download"
         ELSE IF remoteMtime > fs[absolutePath].mtime THEN "download" ELSE "local-newer"
    ELSE IF remoteMtime <= files[relativePath].gdriveMtime
         THEN "skip"
         ELSE IF ~existsSync(fs, absolutePath)
              THEN "download"
              ELSE IF fs[absolutePath].mtime <= files[relativePath].localMtime
                   THEN "download"
                   ELSE IF remoteMtime > fs[absolutePath].mtime
                        THEN "download"
                        ELSE "undefined"

\* SyncEngine.shouldDownloadFile; files is state.files, fs the local
\* filesystem
shouldDownloadFile(files, fs, relativePath, absolutePath, remoteMtime) ==
    IF relativePath \notin DOMAIN files
    THEN IF ~existsSync(fs, absolutePath)
         THEN "download"
         ELSE IF remoteMtime > fs[absolutePath].mtime THEN "download" ELSE "local-newer"
    ELSE IF remoteMtime <= files[relativePath].gdriveMtime
         THEN "skip"
         ELSE IF ~existsSync(fs, absolutePath)
              THEN "download"
              ELSE IF fs[absolutePath].mtime <= files[relativePath].localMtime
                   THEN "download"
                   ELSE IF remoteMtime > fs[absolutePath].mtime
                        THEN "download"
                        ELSE "local-newer"

\* ---------------------------------------------------------- a pass's world
\* The engine's operations are written as functions of a world record w:
\*   fs, remote, nextId, now     the local directory, the remote tree, the
\*                               next fresh remote ID and the current time
\*   files, fileKeys, folders    this.state (fileKeys: the key order of files)
\*   saved                       the persisted state document (<<>>: missing)
\*   n, failAt, calls            the remote calls made so far in the pass, the
\*                               number of the call that fails (0: none), the log
\*   threw                       an exception is propagating
\*   ret                         the value returned by the last call
\*   filesToPush, decided        pull's return batch and its decisions
\*   listed                      the paths of the listing pull worked from
\*   untracked                   the keys the pass deleted from state.files
\*   stateOk                     this.state has a files object
\*   typeError                   the exception is a TypeError: a property of
\*                               this.state.files was read and there is no
\*                               such object
Call(fn, relativePath, id, name, parent) ==
    [fn |-> fn, path |-> relativePath, id |-> id, name |-> name, parent |-> parent]

NoId == 0 - 1

\* every request counts; response.ok is false for the failing one
request(w, call) == [w EXCEPT !.n = @ + 1, !.calls = Append(@, call)]

responseOk(w) == w.n + 1 # w.failAt

throw(w) == [w EXCEPT !.threw = TRUE, !.ret = <<>>]

\* this.state.files[relativePath], or Object.keys(this.state.files), when
\* this.state.files is undefined
throwTypeError(w) == [w EXCEPT !.threw = TRUE, !.typeError = TRUE, !.ret = <<>>]

\* GDriveClient.updateFile: PATCH of the content; 404 when the ID is gone
updateFile(w, fileId, content, relativePath) ==
    LET w1 == request(w, Call("updateFile", relativePath, fileId, <<>>, NoId)) IN
    IF ~responseOk(w) \/ ~(\E o \in w.remote : o.id = fileId)
    THEN throw(w1)
    ELSE LET old == CHOOSE o \in w.remote : o.id = fileId
             new == [old EXCEPT !.content = content, !.mtime = w.now]
         IN  [w1 EXCEPT !.remote = (@ \ {old}) \cup {new}, !.ret = <<new>>]

\* GDriveClient.uploadFile: always a new object under parentId
uploadFile(w, name, content, parentId, relativePath) ==
    LET w1 == request(w, Call("uploadFile", relativePath, w.nextId, name, parentId)) IN
    IF ~responseOk(w)
    THEN throw(w1)
    ELSE LET new == GDriveFile(w.nextId, name, parentId, PlainMime, w.now, content)
         IN  [w1 EXCEPT !.remote = @ \cup {new}, !.nextId = @ + 1, !.ret = <<new>>]

\* GDriveClient.downloadFile
downloadFile(w, fileId, relativePath) ==
    LET w1 == request(w, Call("downloadFile", relativePath, fileId, <<>>, NoId)) IN
    IF ~responseOk(w) \/ ~(\E o \in w.remote : o.id = fileId)
    THEN throw(w1)
    ELSE [w1 EXCEPT !.ret = <<(CHOOSE o \in w.remote : o.id = fileId).content>>]

\* GDriveClient.deleteFile: a 404 is not an error
deleteFile(w, fileId, relativePath) ==
    LET w1 == request(w, Call("deleteFile", relativePath, fileId, <<>>, NoId)) IN
    IF ~responseOk(w)
    THEN throw(w1)
    ELSE [w1 EXCEPT !.remote = {o \in @ : o.id # fileId}, !.ret = <<>>]

\* GDriveClient.createFolder
createFolder(w, name, parentId, relativePath) ==
    LET w1 == request(w, Call("createFolder", relativePath, w.nextId, name, parentId)) IN
    IF ~responseOk(w)
    THEN throw(w1)
    ELSE LET new == GDriveFile(w.nextId, name, parentId, FolderMime, w.now, 0)
         IN  [w1 EXCEPT !.remote = @ \cup {new}, !.nextId = @ + 1, !.ret = <<new>>]

\* GDriveClient.findFolder: result.files[0] ?? null
findFolder(w, name, parentId, relativePath) ==
    LET w1 == request(w, Call("findFolder", relativePath, NoId, name, parentId))
        found == {o \in w.remote : o.parent = parentId /\ o.name = name /\ isFolder(o)}
    IN  IF ~responseOk(w)
        THEN throw(w1)
        ELSE IF found = {}
             THEN [w1 EXCEPT !.ret = <<>>]
             ELSE [w1 EXCEPT !.ret = <<CHOOSE o \in found : \A o2 \in found : o.id <= o2.id>>]

\* SyncEngine.saveState
saveState(w) ==
    IF w.stateOk
    THEN [w EXCEPT !.saved = <<[files |-> w.files, fileKeys |-> w.fileKeys,
                                folders |-> w.folders]>>]
    ELSE w

\* saveUnlessThrown as it would be if the state were saved in a finally block
saveUnlessThrown_Finally(r) == saveState(r)

\* the saveState call that ends a pass is not reached when the pass threw
saveUnlessThrown(r) == IF r.threw THEN r ELSE saveState(r)

\* this.state.files[relativePath] = record
setFile(w, relativePath, record) ==
    [w EXCEPT !.files = Put(@, relativePath, record), !.fileKeys = SetKey(@, relativePath)]

\* delete this.state.files[relativePath]
deleteFileRecord(w, relativePath) ==
    [w EXCEPT !.files = Remove(@, relativePath), !.fileKeys = DelKey(@, relativePath),
              !.untracked = @ \cup {relativePath}]

FileState(gdriveId, localMtime, gdriveMtime) ==
    [gdriveId |-> gdriveId, localMtime |-> localMtime, gdriveMtime |-> gdriveMtime]

\* ------------------------------------------------- SyncEngine, push side
\* this.state.folders[currentPath] = folder.id; parentId = folder.id, for the
\* folder a request r returned (an error of r propagates)
setFolder(r, currentPath) ==
    IF r.threw
    THEN r
    ELSE [r EXCEPT !.folders = Put(@, currentPath, r.ret[1].id), !.ret = <<r.ret[1].id>>]

\* ensureFolderExists after findFolder's answer f: a found folder is used,
\* a missing one is created
foundOrCreate(f, part, currentPath, parentId) ==
    IF f.threw
    THEN f
    ELSE IF f.ret # <<>>
         THEN setFolder(f, currentPath)
         ELSE setFolder(createFolder(f, part, parentId, currentPath), currentPath)

\* ensureSegment as it would be without the findFolder query
ensureSegment_CreateOnly(w, part, currentPath, parentId) ==
    IF currentPath \in DOMAIN w.folders
    THEN [w EXCEPT !.ret = <<w.folders[currentPath]>>]
    ELSE setFolder(createFolder(w, part, parentId, currentPath), currentPath)

\* ensureSegment as it would be if the folder were looked up remotely every
\* time
ensureSegment_Requery(w, part, currentPath, parentId) ==
    foundOrCreate(findFolder(w, part, parentId, currentPath), part, currentPath, parentId)

\* the body of ensureFolderExists's loop for one segment; parentId is the
\* running parent, the result's ret is <<the segment's folder ID>>
ensureSegment(w, part, currentPath, parentId) ==
    IF currentPath \in DOMAIN w.folders
    THEN [w EXCEPT !.ret = <<w.folders[currentPath]>>]
    ELSE foundOrCreate(findFolder(w, part, parentId, currentPath), part, currentPath, parentId)

\* s is the world after segment i; the loop goes on with its folder as parent
RECURSIVE ensureFolderLoop(_, _, _, _)
ensureFolderNext(s, parts, i) ==
    IF s.threw THEN s ELSE ensureFolderLoop(s, parts, i + 1, s.ret[1])

ensureFolderLoop(w, parts, i, parentId) ==
    IF i > Len(parts)
    THEN [w EXCEPT !.ret = <<parentId>>]
    ELSE ensureFolderNext(ensureSegment(w, parts[i], SubSeq(parts, 1, i), parentId), parts, i)

\* SyncEngine.ensureFolderExists
ensureFolderExists(w, relativePath) ==
    ensureFolderLoop(w, relativePath, 1, gdriveFolderId)

\* handleLocalDelete as it would be without the try around deleteFile
handleLocalDelete_NoCatch(w, relativePath) ==
    IF relativePath \in DOMAIN w.files
    THEN LET d == deleteFile(w, w.files[relativePath].gdriveId, relativePath)
         IN  IF d.threw THEN d ELSE deleteFileRecord(d, relativePath)
    ELSE w

\* SyncEngine.handleLocalDelete
handleLocalDelete(w, relativePath) ==
    IF relativePath \in DOMAIN w.files
    THEN deleteFileRecord([deleteFile(w, w.files[relativePath].gdriveId, relativePath)
                              EXCEPT !.threw = FALSE],
                          relativePath)
    ELSE w

\* trackCreated as it would be if the record took the local mtime for the
\* remote one as well
trackCreated_LocalTime(c, relativePath, localMtime) ==
    IF c.threw
    THEN c
    ELSE setFile(c, relativePath, FileState(c.ret[1].id, localMtime, localMtime))

\* push, after uploadFile returned created in c:
\* state.files[relativePath] = {created.id, localMtime, created.modifiedTime}
trackCreated(c, relativePath, localMtime) ==
    IF c.threw
    THEN c
    ELSE setFile(c, relativePath, FileState(c.ret[1].id, localMtime, c.ret[1].mtime))

\* push, after updateFile returned updated in u:
\* state.files[relativePath] = {existing.gdriveId, localMtime, updated.modifiedTime}
trackUpdated(u, relativePath, gdriveId, localMtime) ==
    IF u.threw
    THEN u
    ELSE setFile(u, relativePath, FileState(gdriveId, localMtime, u.ret[1].mtime))

\* push, after the parent folder was resolved in e: the file is uploaded
\* into it and tracked
uploadNew(e, relativePath, content, localMtime) ==
    IF e.threw
    THEN e
    ELSE trackCreated(uploadFile(e, basename(relativePath), content, e.ret[1], relativePath),
                      relativePath, localMtime)

\* push's parentId for a new file: the root for a path without a directory
parentOf(w, dir) ==
    IF dir = <<>>
    THEN [w EXCEPT !.ret = <<gdriveFolderId>>]
    ELSE ensureFolderExists(w, dir)

\* pushEntry as it would be if it did not look the path up in state.files
pushEntry_AlwaysCreate(w, absolutePath) ==
    IF isExcluded(getRelativePath(absolutePath)) THEN w
    ELSE IF ~w.stateOk /\ ~isDirectory(w.fs, absolutePath) THEN throwTypeError(w)
    ELSE IF ~existsSync(w.fs, absolutePath)
         THEN handleLocalDelete(w, getRelativePath(absolutePath))
    ELSE IF isDirectory(w.fs, absolutePath) THEN w
    ELSE uploadNew(parentOf(w, dirname(getRelativePath(absolutePath))),
                   getRelativePath(absolutePath),
                   w.fs[absolutePath].content, w.fs[absolutePath].mtime)

\* the body of push's loop for one path
pushEntry(w, absolutePath) ==
    IF isExcluded(getRelativePath(absolutePath)) THEN w
    ELSE IF ~w.stateOk /\ ~isDirectory(w.fs, absolutePath) THEN throwTypeError(w)
    ELSE IF ~existsSync(w.fs, absolutePath)
         THEN handleLocalDelete(w, getRelativePath(absolutePath))
    ELSE IF isDirectory(w.fs, absolutePath) THEN w
    ELSE IF getRelativePath(absolutePath) \in DOMAIN w.files
         THEN trackUpdated(updateFile(w, w.files[getRelativePath(absolutePath)].gdriveId,
                                      w.fs[absolutePath].content,
                                      getRelativePath(absolutePath)),
                           getRelativePath(absolutePath),
                           w.files[getRelativePath(absolutePath)].gdriveId,
                           w.fs[absolutePath].mtime)
         ELSE uploadNew(parentOf(w, dirname(getRelativePath(absolutePath))),
                        getRelativePath(absolutePath),
                        w.fs[absolutePath].content, w.fs[absolutePath].mtime)

RECURSIVE pushLoop(_, _, _)
pushLoop(w, absolutePaths, i) ==
    IF w.threw \/ i > Len(absolutePaths)
    THEN w
    ELSE pushLoop(pushEntry(w, absolutePaths[i]), absolutePaths, i + 1)

\* SyncEngine.push
push(w, absolutePaths) == saveUnlessThrown(pushLoop(w, absolutePaths, 1))

\* ------------------------------------------------- SyncEngine, pull side
\* pull's first loop: a folder-type entry of the listing sets state.folders
RECURSIVE pullFolders(_, _, _, _)
pullFolders(w, remoteFiles, order, i) ==
    IF i > Len(order)
    THEN w
    ELSE LET relativePath == order[i]
             file == remoteFiles[relativePath]
         IN  pullFolders(IF file.mimeType = FolderMime
                         THEN [w EXCEPT !.folders = Put(@, relativePath, file.id)]
                         ELSE w,
                         remoteFiles, order, i + 1)

\* pullEntry as it would be if the local-newer branch returned the path
\* without writing the record
pullEntry_NoRecord(w, relativePath, remoteFile) ==
    IF isExcluded(relativePath) THEN w
    ELSE IF StartsWith(remoteFile.mimeType, GoogleAppsPrefix) THEN w
    ELSE LET absolutePath == joinLocal(relativePath)
             remoteMtime == remoteFile.mtime
             action == shouldDownloadFile(w.files, w.fs, relativePath, absolutePath, remoteMtime)
             w0 == [w EXCEPT !.decided = Put(@, relativePath, action)]
         IN  IF action = "download"
             THEN LET d == downloadFile(w0, remoteFile.id, relativePath) IN
                  IF d.threw
                  THEN d
                  ELSE setFile([d EXCEPT !.fs = Put(@, absolutePath,
                                            [mtime |-> w.now, content |-> d.ret[1]])],
                               relativePath,
                               FileState(remoteFile.id, w.now, remoteMtime))
             ELSE IF action = "local-newer"
                  THEN [w0 EXCEPT !.filesToPush = Append(@, absolutePath)]
                  ELSE w0

\* the body of pull's second loop for one entry of the listing
pullEntry(w, relativePath, remoteFile) ==
    IF isExcluded(relativePath) THEN w
    ELSE IF StartsWith(remoteFile.mimeType, GoogleAppsPrefix) THEN w
    ELSE LET absolutePath == joinLocal(relativePath)
             remoteMtime == remoteFile.mtime
             action == shouldDownloadFile(w.files, w.fs, relativePath, absolutePath, remoteMtime)
             w0 == [w EXCEPT !.decided = Put(@, relativePath, action)]
         IN  IF action = "download"
             THEN LET d == downloadFile(w0, remoteFile.id, relativePath) IN
                  IF d.threw
                  THEN d
                  ELSE setFile([d EXCEPT !.fs = Put(@, absolutePath,
                                            [mtime |-> w.now, content |-> d.ret[1]])],
                               relativePath,
                               FileState(remoteFile.id, w.now, remoteMtime))
             ELSE IF action = "local-newer"
                  THEN [setFile(w0, relativePath,
                                FileState(remoteFile.id, w.fs[absolutePath].mtime, remoteMtime))
                           EXCEPT !.filesToPush = Append(@, absolutePath)]
                  ELSE w0

RECURSIVE pullLoop(_, _, _, _)
pullLoop(w, remoteFiles, order, i) ==
    IF w.threw \/ i > Len(order)
    THEN w
    ELSE pullLoop(pullEntry(w, order[i], remoteFiles[order[i]]), remoteFiles, order, i + 1)

\* pullMissing as it would be if a remote deletion were applied locally
pullMissing_Unlink(w, remoteFiles, relativePath) ==
    IF relativePath \notin DOMAIN remoteFiles
    THEN LET absolutePath == joinLocal(relativePath) IN
         IF existsSync(w.fs, absolutePath)
         THEN deleteFileRecord([w EXCEPT !.fs = Remove(@, absolutePath)], relativePath)
         ELSE deleteFileRecord(w, relativePath)
    ELSE w

\* pullMissing as it would be if it returned the path for pushing without
\* looking for the local file
pullMissing_PushAlways(w, remoteFiles, relativePath) ==
    IF relativePath \notin DOMAIN remoteFiles
    THEN [deleteFileRecord(w, relativePath)
             EXCEPT !.filesToPush = Append(@, joinLocal(relativePath))]
    ELSE w

\* pullMissing as it would be if it kept the record of the path it returns
pullMissing_KeepRecord(w, remoteFiles, relativePath) ==
    IF relativePath \notin DOMAIN remoteFiles
    THEN IF existsSync(w.fs, joinLocal(relativePath))
         THEN [w EXCEPT !.filesToPush = Append(@, joinLocal(relativePath))]
         ELSE deleteFileRecord(w, relativePath)
    ELSE w

\* the body of pull's third loop for one key of state.files
pullMissing(w, remoteFiles, relativePath) ==
    IF relativePath \notin DOMAIN remoteFiles
    THEN LET absolutePath == joinLocal(relativePath) IN
         IF existsSync(w.fs, absolutePath)
         THEN [deleteFileRecord(w, relativePath) EXCEPT !.filesToPush = Append(@, absolutePath)]
         ELSE deleteFileRecord(w, relativePath)
    ELSE w

\* keys is Object.keys(this.state.files), taken before the loop starts
RECURSIVE pullMissingLoop(_, _, _, _)
pullMissingLoop(w, remoteFiles, keys, i) ==
    IF i > Len(keys)
    THEN w
    ELSE pullMissingLoop(pullMissing(w, remoteFiles, keys[i]), remoteFiles, keys, i + 1)

\* pullMissingAll as it would be if the third loop asked for the listing
\* again
pullMissingAll_Fresh(m, remoteFiles) ==
    IF m.threw
    THEN m
    ELSE saveState(pullMissingLoop(
             m, CHOOSE f \in listFilesRecursive(m.remote, gdriveFolderId) : TRUE,
             m.fileKeys, 1))

\* pull's third loop and the saveState after it, not reached when the
\* second loop threw in m
pullMissingAll(m, remoteFiles) ==
    IF m.threw
    THEN m
    ELSE saveState(pullMissingLoop(m, remoteFiles, m.fileKeys, 1))

\* SyncEngine.pull; remoteFiles is the map listFilesRecursive returned and
\* order the iteration order of that map
pull(w, remoteFiles, order) ==
    IF ~responseOk(w)
    THEN throw(request(w, Call("listFilesRecursive", <<>>, gdriveFolderId, <<>>, NoId)))
    ELSE IF ~w.stateOk
    THEN throwTypeError(request(w, Call("listFilesRecursive", <<>>, gdriveFolderId, <<>>, NoId)))
    ELSE pullMissingAll(
             pullLoop(
                 pullFolders(
                     [request(w, Call("listFilesRecursive", <<>>, gdriveFolderId, <<>>, NoId))
                         EXCEPT !.listed = DOMAIN remoteFiles],
                     remoteFiles, order, 1),
                 remoteFiles, order, 1),
             remoteFiles)

\* ---------------------------------------------------------------- Watcher
\* the ignored option of chokidar.watch: the test is applied to every path
\* the watcher meets, so a file below an ignored directory is never reported
ignored(absolutePath) ==
    \E k \in 1..Len(absolutePath) : \E i \in 1..Len(getExcludedFiles) :
        EndsWith(absolutePath[k], getExcludedFiles[i])

\* Watcher.getAllFiles: the files below dir, as a set
RECURSIVE getAllFiles(_, _)
getAllFiles(fs, dir) ==
    LET below == {q \in DOMAIN fs : IsPrefix(dir, q) /\ q # dir}
        entries == {q[Len(dir) + 1] : q \in below}
    IN  UNION { IF \E i \in 1..Len(getExcludedFiles) : EndsWith(name, getExcludedFiles[i])
                THEN {}
                ELSE IF isDirectory(fs, dir \o <<name>>)
                     THEN getAllFiles(fs, dir \o <<name>>)
                     ELSE {dir \o <<name>>}
              : name \in entries }

\* Watcher.onChange, on the pending set (kept in insertion order)
onChange(pending, absolutePath) == SetKey(pending, absolutePath)

\* setTimeout returns a handle that no armed timer has
newTimer(armed) == IF 1 \in armed THEN 2 ELSE 1

\* clearTimeout of a handle; nothing happens when its timer has fired
clearTimeout(armed, handle) == armed \ Range(handle)

\* armTimer as it would be if onChange did not clear the timer it holds
armTimer_NoClear(armed, handle) ==
    [debounce |-> armed \cup {newTimer(armed)}, debounceTimer |-> <<newTimer(armed)>>]

\* Watcher.onChange, on the timer: the one held is cleared and a new one set
armTimer(armed, handle) ==
    [debounce |-> clearTimeout(armed, handle) \cup {newTimer(clearTimeout(armed, handle))},
     debounceTimer |-> <<newTimer(clearTimeout(armed, handle))>>]

\* Watcher.start: the subscription is opened
start(t) == [t EXCEPT !.watcher = TRUE]

\* Watcher.startPolling: the interval is set
startPolling(t) == [t EXCEPT !.poll = TRUE]

\* Watcher.stop: the subscription is closed and the debounce timer held is
\* cleared; the interval of startPolling is not touched
stop(t, handle) ==
    [t EXCEPT !.watcher = FALSE, !.debounce = clearTimeout(@, handle)]

\* SyncEngine.loadState: a missing document gives the empty state
EmptyState == [files |-> EmptyMap, fileKeys |-> <<>>, folders |-> EmptyMap]

loadState(doc) == IF doc = <<>> THEN EmptyState ELSE doc[1]

\* loadState for a document that is not a state: JSON.parse throws on text
\* that is not JSON, and the catch returns the empty state; it returns any
\* other JSON value, which loadState returns as it is.  The result is
\* whether this.state has a files object.
parse(document) == document # "other"

\* ------------------------------------------------------------ the universe
NameA == <<"a">>

NameB == <<"b">>

NameD == <<"d">>

NameX == <<"x", ".DS_Store">>

\* a file at the top and a file in a folder
CorePaths == {<<NameA>>, <<NameD, NameB>>}

\* an excluded name in a folder, a name that ends with an excluded name,
\* and a file in a folder that has an excluded name
ExclPaths == {<<NameD, DS_STORE>>, <<NameX>>, <<DS_STORE, NameB>>}

VARIABLES fs, remote, nextId, now, state, saved, phase, pendingChanges,
          debounceTimer, filesToPush, op, hist, used, universe, shape, timers, listing

\* shape tells what saved and state stand for when they are not a state:
\*   document   "ok": the state file is missing (saved = <<>>) or holds the
\*              document saved; "text": it holds text that is not JSON;
\*              "other": it holds JSON without a files object, such as {} or
\*              null (saved is <<>> in both cases)
\*   state      this.state has a files object; when it has not, it is the
\*              value JSON.parse returned and state is EmptyState
\* timers is what the process has scheduled:
\*   watcher    the chokidar subscription is open
\*   debounce   the timeouts of onChange that are armed, by handle
\*   poll       the interval of startPolling is armed
\* debounceTimer is the handle the Watcher holds: <<>> for null, else <<id>>;
\* once the process has exited, timers is what it had scheduled at that time.
\* listing is the listing a pull in flight has received: <<>> for none
vars == <<fs, remote, nextId, now, state, saved, phase, pendingChanges,
          debounceTimer, filesToPush, op, hist, used, universe, shape, timers, listing>>

NoTimers == [watcher |-> FALSE, debounce |-> {}, poll |-> FALSE]

WellShaped == [document |-> "ok", state |-> TRUE]

\* the remote file objects the listing shows at a relative path
ObjectsAt(remoteTree, relativePath) ==
    {e[2] : e \in {x \in listEntries(remoteTree, gdriveFolderId, <<>>) : x[1] = relativePath}}

\* the relative paths for which a pass ran handleLocalDelete on a record
Deleted(calls) == {calls[j].path : j \in {i \in 1..Len(calls) : calls[i].fn = "deleteFile"}}

\* the relative paths a pass uploaded as new files
Uploaded(calls) == {calls[j].path : j \in {i \in 1..Len(calls) : calls[i].fn = "uploadFile"}}

\* the record of the step just taken, and in prev what the step before it
\* was; stale: the pass is a pull, and a step was taken between the reading
\* of its listing and the rest of it
Summary(o) ==
    [kind |-> o.kind, batch |-> o.batch, threw |-> o.threw, uploaded |-> Uploaded(o.calls),
     deleted |-> Deleted(o.calls)]

OpAfter(prev, kind, batch, w) ==
    [kind |-> kind, batch |-> batch, calls |-> w.calls, decided |-> w.decided,
     listed |-> w.listed, toPush |-> w.filesToPush, threw |-> w.threw, prev |-> prev,
     untracked |-> w.untracked, typeError |-> w.typeError, stale |-> FALSE]

Op(kind, batch, w) == OpAfter(Summary(op), kind, batch, w)

NoSummary == [kind |-> "none", batch |-> <<>>, threw |-> FALSE, uploaded |-> {}, deleted |-> {}]

NoPass == [calls |-> <<>>, decided |-> EmptyMap, listed |-> {}, filesToPush |-> <<>>,
           threw |-> FALSE, untracked |-> {}, typeError |-> FALSE]

\* the world a pass starts in
World(failAt) ==
    [fs |-> fs, remote |-> remote, nextId |-> nextId, now |-> now,
     files |-> state.files, fileKeys |-> state.fileKeys, folders |-> state.folders,
     saved |-> saved, n |-> 0, failAt |-> failAt, calls |-> <<>>, threw |-> FALSE,
     ret |-> <<>>, filesToPush |-> <<>>, decided |-> EmptyMap, listed |-> {},
     untracked |-> {}, stateOk |-> shape.state, typeError |-> FALSE]

Wrote(w) == w.fs # fs \/ w.remote # remote

\* a pass fits the bounds of the model
Fits(w) == w.nextId <= MaxId + 1 /\ (Wrote(w) => now <= MaxClock)

\* the world a pass ends in becomes the state; the engine's memory is gone
\* when the process exits
Commit(w, exits) ==
    /\ fs' = w.fs
    /\ remote' = w.remote
    /\ nextId' = w.nextId
    /\ now' = IF Wrote(w) THEN now + 1 ELSE now
    /\ state' = IF exits
                THEN EmptyState
                ELSE [files |-> w.files, fileKeys |-> w.fileKeys, folders |-> w.folders]
    /\ saved' = w.saved
    /\ shape' = [document |-> IF w.saved # <<>> THEN "ok" ELSE shape.document,
                 state |-> exits \/ shape.state]

\* a remote object that pull can download
Downloadable(o) == ~StartsWith(o.mimeType, GoogleAppsPrefix)

\* the two sides and the persisted baseline agree on every path that is
\* synced: one remote object per local file, same content, and a record
\* holding its ID and both current mtimes
InSyncOf(f, r, doc) ==
    \A p \in universe : ~isExcluded(p) =>
        LET objs == {o \in ObjectsAt(r, p) : Downloadable(o)}
            st == loadState(doc)
        IN  IF joinLocal(p) \in DOMAIN f
            THEN /\ Cardinality(objs) = 1
                 /\ p \in DOMAIN st.files
                 /\ \A o \in objs :
                      /\ o.id = st.files[p].gdriveId
                      /\ o.mtime = st.files[p].gdriveMtime
                      /\ o.content = f[joinLocal(p)].content
                      /\ f[joinLocal(p)].mtime = st.files[p].localMtime
            ELSE objs = {} /\ p \notin DOMAIN st.files

\* hist: what has happened around the current session
\*   quiet   no local or remote change since the daemon started
\*   sides   the sides that changed while the daemon was last offline
\*   base    the two sides were in sync when the daemon last went offline
\*   (used counts the changes and the runs so far)
Changed(side) ==
    IF phase = "offline"
    THEN [hist EXCEPT !.sides = @ \cup {side}]
    ELSE [hist EXCEPT !.quiet = FALSE]

Exited(f, r, doc) == [quiet |-> FALSE, sides |-> {}, base |-> InSyncOf(f, r, doc)]

\* the watcher is started (main calls start() after the initial sync)
Watching == timers.watcher

\* chokidar reports a change of a path it does not ignore to onChange
Notify(absolutePath) ==
    IF Watching /\ ~ignored(absolutePath)
    THEN /\ pendingChanges' = onChange(pendingChanges, absolutePath)
         /\ debounceTimer' = armTimer(timers.debounce, debounceTimer).debounceTimer
         /\ timers' = [timers EXCEPT
                          !.debounce = armTimer(@, debounceTimer).debounce]
    ELSE UNCHANGED <<pendingChanges, debounceTimer, timers>>

\* ------------------------------------------------------------ environment
\* a program other than the daemon writes a local file
LocalWrite(p) ==
    /\ used.changes < MaxChanges
    /\ used' = [used EXCEPT !.changes = @ + 1]
    /\ now <= MaxClock
    /\ fs' = Put(fs, joinLocal(p), [mtime |-> now, content |-> now])
    /\ now' = now + 1
    /\ Notify(joinLocal(p))
    /\ hist' = Changed("local")
    /\ op' = Op("env", <<>>, NoPass)
    /\ UNCHANGED <<remote, nextId, state, saved, phase, filesToPush, universe, listing, shape>>

\* a program other than the daemon deletes a local file
LocalDelete(p) ==
    /\ used.changes < MaxChanges
    /\ used' = [used EXCEPT !.changes = @ + 1]
    /\ joinLocal(p) \in DOMAIN fs
    /\ fs' = Remove(fs, joinLocal(p))
    /\ Notify(joinLocal(p))
    /\ hist' = Changed("local")
    /\ op' = Op("env", <<>>, NoPass)
    /\ UNCHANGED <<remote, nextId, now, state, saved, phase, filesToPush, universe, listing, shape>>

\* the folders of dir that the remote tree lacks are created, top down;
\* the result is [remote, nextId, id (of the last folder)]
RECURSIVE remoteMkdirs(_, _, _, _, _)
remoteMkdirs(r, nid, dir, i, parentId) ==
    IF i > Len(dir)
    THEN [remote |-> r, nextId |-> nid, id |-> parentId]
    ELSE LET found == {o \in r : o.parent = parentId /\ o.name = dir[i] /\ isFolder(o)} IN
         IF found # {}
         THEN remoteMkdirs(r, nid, dir, i + 1, (CHOOSE o \in found : TRUE).id)
         ELSE remoteMkdirs(r \cup {GDriveFile(nid, dir[i], parentId, FolderMime, now, 0)},
                           nid + 1, dir, i + 1, nid)

\* another Drive client changes the content of a remote file
RemoteModify(p) ==
    /\ used.changes < MaxChanges
    /\ used' = [used EXCEPT !.changes = @ + 1]
    /\ now <= MaxClock
    /\ \E o \in ObjectsAt(remote, p) :
          remote' = (remote \ {o}) \cup {[o EXCEPT !.mtime = now, !.content = now]}
    /\ now' = now + 1
    /\ hist' = Changed("remote")
    /\ op' = Op("env", <<>>, NoPass)
    /\ UNCHANGED <<fs, nextId, state, saved, phase, pendingChanges, debounceTimer,
                   filesToPush, universe, listing, timers, shape>>

\* another Drive client creates a remote file (and the folders it lies in)
RemoteCreate(p, mimeType) ==
    /\ used.changes < MaxChanges
    /\ used' = [used EXCEPT !.changes = @ + 1]
    /\ now <= MaxClock
    /\ ObjectsAt(remote, p) = {}
    /\ LET d == remoteMkdirs(remote, nextId, dirname(p), 1, gdriveFolderId) IN
          /\ d.nextId <= MaxId
          /\ remote' = d.remote \cup {GDriveFile(d.nextId, basename(p), d.id, mimeType, now, now)}
          /\ nextId' = d.nextId + 1
    /\ now' = now + 1
    /\ hist' = Changed("remote")
    /\ op' = Op("env", <<>>, NoPass)
    /\ UNCHANGED <<fs, state, saved, phase, pendingChanges, debounceTimer,
                   filesToPush, universe, listing, timers, shape>>

\* another Drive client deletes a remote file
RemoteDelete(p) ==
    /\ used.changes < MaxChanges
    /\ used' = [used EXCEPT !.changes = @ + 1]
    /\ \E o \in ObjectsAt(remote, p) : remote' = remote \ {o}
    /\ hist' = Changed("remote")
    /\ op' = Op("env", <<>>, NoPass)
    /\ UNCHANGED <<fs, nextId, now, state, saved, phase, pendingChanges, debounceTimer,
                   filesToPush, universe, listing, timers, shape>>

\* the state document is lost while the daemon is not running
StateLost ==
    /\ used.changes < MaxChanges
    /\ used' = [used EXCEPT !.changes = @ + 1]
    /\ phase = "offline"
    /\ saved # <<>> \/ shape.document # "ok"
    /\ saved' = <<>>
    /\ shape' = [shape EXCEPT !.document = "ok"]
    /\ hist' = [hist EXCEPT !.sides = @ \cup {"state"}]
    /\ op' = Op("env", <<>>, NoPass)
    /\ UNCHANGED <<fs, remote, nextId, now, state, phase, pendingChanges, debounceTimer,
                   filesToPush, universe, listing, timers>>

\* the state file is overwritten while the daemon is not running: with text
\* that is not JSON (a write cut short) or with JSON of another shape
StateCorrupted(document) ==
    /\ used.changes < MaxChanges
    /\ used' = [used EXCEPT !.changes = @ + 1]
    /\ phase = "offline"
    /\ saved' = <<>>
    /\ shape' = [shape EXCEPT !.document = document]
    /\ hist' = [hist EXCEPT !.sides = @ \cup {"state"}]
    /\ op' = Op("env", <<>>, NoPass)
    /\ UNCHANGED <<fs, remote, nextId, now, state, phase, pendingChanges, debounceTimer,
                   filesToPush, universe, listing, timers>>

\* ----------------------------------------------------------------- daemon
\* main: new Watcher(config), whose SyncEngine loads the state
Start ==
    /\ phase = "offline"
    /\ used.runs < MaxRuns
    /\ used' = [used EXCEPT !.runs = @ + 1]
    /\ phase' = "loaded"
    /\ state' = loadState(saved)
    /\ shape' = [shape EXCEPT !.state = parse(shape.document)]
    /\ hist' = [hist EXCEPT !.quiet = TRUE]
    /\ op' = Op("start", <<>>, NoPass)
    /\ timers' = NoTimers
    /\ UNCHANGED <<fs, remote, nextId, now, saved, pendingChanges, debounceTimer,
                   filesToPush, universe, listing>>

\* the boundary a pass runs under: main().catch ends the process, the try
\* of the poll tick and the try of flush log the error
fatal_Uncaught(threw, boundary) == threw

fatal(threw, boundary) == threw /\ boundary = "main"

\* the process ends: main().catch at startup, SIGINT or SIGTERM later
Exit(w) ==
    /\ phase' = "offline"
    /\ pendingChanges' = <<>>
    /\ debounceTimer' = <<>>
    /\ filesToPush' = <<>>
    /\ listing' = <<>>
    /\ hist' = Exited(w.fs, w.remote, w.saved)

\* the interval of startPolling fires: Watcher.pull calls syncEngine.pull,
\* which asks for the listing; Drive reads it now, and the pass goes on when
\* the response arrives
PollTick ==
    /\ phase = "running"
    /\ timers.poll
    /\ \E m \in listFilesRecursive(remote, gdriveFolderId) : listing' = <<m>>
    /\ phase' = "listing"
    /\ op' = Op("tick", <<>>, NoPass)
    /\ UNCHANGED <<fs, remote, nextId, now, state, saved, pendingChanges, debounceTimer,
                   filesToPush, hist, used, universe, shape, timers>>

\* the listing pull works on: at startup the one read now, after a poll tick
\* the one read at the tick
Listings ==
    IF phase = "loaded" THEN listFilesRecursive(remote, gdriveFolderId) ELSE Range(listing)

\* a step was taken since the listing of the pull in flight was read
Stale == phase = "listing" /\ op.kind # "tick"

\* what preceded the pull: the tick is the start of the pull itself
PassBefore == IF op.kind = "tick" THEN op.prev ELSE Summary(op)

\* Watcher.pull, first half: syncEngine.pull(), at startup ("loaded") and
\* after a poll tick ("listing"); an error ends the process at startup and
\* is logged by the poll tick.  failAt = 1 is the listing request failing.
WatcherPull ==
    /\ phase \in {"loaded", "listing"}
    /\ \E failAt \in 0..MaxFail : \E m \in Listings : \E order \in Perms(DOMAIN m) :
       \E boundary \in {IF phase = "loaded" THEN "main" ELSE "poll"} :
       \E w \in {pull(World(failAt), m, order)} :
          /\ Fits(w)
          /\ Commit(w, fatal(w.threw, boundary))
          /\ op' = [OpAfter(PassBefore, "pull", <<>>, w) EXCEPT !.stale = Stale]
          /\ IF fatal(w.threw, boundary)
             THEN Exit(w)
             ELSE /\ phase' = IF w.threw THEN "running"
                              ELSE IF boundary = "main" THEN "pulled" ELSE "polled"
                  /\ filesToPush' = IF w.threw THEN <<>> ELSE w.filesToPush
                  /\ listing' = <<>>
                  /\ UNCHANGED <<pendingChanges, debounceTimer, hist>>
    /\ UNCHANGED <<used, universe, timers>>

\* Watcher.pull, second half: syncEngine.push(filesToPush) when it is not
\* empty; no timer fires between the two halves
WatcherPullPush ==
    /\ phase \in {"pulled", "polled"}
    /\ \E failAt \in 0..MaxFail :
       \E boundary \in {IF phase = "pulled" THEN "main" ELSE "poll"} :
       \E w \in {IF filesToPush = <<>> THEN World(failAt)
                 ELSE push(World(failAt), filesToPush)} :
          /\ Fits(w)
          /\ Commit(w, fatal(w.threw, boundary))
          /\ op' = Op("pullPush", filesToPush, w)
          /\ IF fatal(w.threw, boundary)
             THEN Exit(w)
             ELSE /\ phase' = IF boundary = "main" THEN "pushed" ELSE "running"
                  /\ filesToPush' = <<>>
                  /\ UNCHANGED <<pendingChanges, debounceTimer, hist, listing>>
    /\ UNCHANGED <<used, universe, timers>>

\* Watcher.pushAll, then watcher.start() and watcher.startPolling()
PushAll ==
    /\ phase = "pushed"
    /\ \E failAt \in 0..MaxFail : \E allFiles \in Perms(getAllFiles(fs, localPath)) :
       \E w \in {IF allFiles = <<>> THEN World(failAt) ELSE push(World(failAt), allFiles)} :
          /\ Fits(w)
          /\ Commit(w, fatal(w.threw, "main"))
          /\ op' = Op("pushAll", allFiles, w)
          /\ IF fatal(w.threw, "main")
             THEN Exit(w) /\ UNCHANGED timers
             ELSE /\ phase' = "running"
                  /\ timers' = startPolling(start(timers))
                  /\ UNCHANGED <<pendingChanges, debounceTimer, filesToPush, hist,
                                 listing>>
    /\ UNCHANGED <<used, universe>>

\* a debounce timer fires: Watcher.flush, while no pass runs or while a poll
\* tick waits for its listing
Flush ==
    /\ phase \in {"running", "listing"}
    /\ \E t \in timers.debounce : timers' = [timers EXCEPT !.debounce = @ \ {t}]
    /\ IF pendingChanges = <<>>
       THEN UNCHANGED <<fs, remote, nextId, now, state, saved, shape, op, pendingChanges,
                        phase, debounceTimer, filesToPush, listing, hist>>
       ELSE \E failAt \in 0..MaxFail : \E w \in {push(World(failAt), pendingChanges)} :
               /\ Fits(w)
               /\ Commit(w, fatal(w.threw, "flush"))
               /\ op' = Op("flush", pendingChanges, w)
               /\ IF fatal(w.threw, "flush")
                  THEN Exit(w)
                  ELSE /\ pendingChanges' = <<>>
                       /\ UNCHANGED <<phase, debounceTimer, filesToPush, listing, hist>>
    /\ UNCHANGED <<used, universe>>

\* SIGINT or SIGTERM: watcher.stop() and process.exit(0), whatever is in
\* flight
Stop ==
    /\ phase \in {"running", "listing", "polled"}
    /\ Exit(World(0))
    /\ timers' = stop(timers, debounceTimer)
    /\ state' = EmptyState
    /\ shape' = [shape EXCEPT !.state = TRUE]
    /\ op' = Op("stop", <<>>, NoPass)
    /\ UNCHANGED <<fs, remote, nextId, now, saved, used, universe>>

\* ----------------------------------------------------------- specification
InitWith(paths) ==
    /\ fs = EmptyMap
    /\ remote = {}
    /\ nextId = 1
    /\ now = 1
    /\ state = EmptyState
    /\ saved = <<>>
    /\ phase = "offline"
    /\ pendingChanges = <<>>
    /\ debounceTimer = <<>>
    /\ timers = NoTimers
    /\ listing = <<>>
    /\ filesToPush = <<>>
    /\ op = OpAfter(NoSummary, "init", <<>>, NoPass)
    /\ hist = [quiet |-> FALSE, sides |-> {}, base |-> TRUE]
    /\ used = [changes |-> 0, runs |-> 0]
    /\ universe = paths
    /\ shape = WellShaped

\* one path at a time
Universes == {{p} : p \in CorePaths \cup ExclPaths}

Init == \E paths \in Universes : InitWith(paths)

Next ==
    \/ \E p \in universe : LocalWrite(p)
    \/ \E p \in universe : LocalDelete(p)
    \/ \E p \in universe : RemoteModify(p)
    \/ \E p \in universe : \E mimeType \in {PlainMime, DocMime} : RemoteCreate(p, mimeType)
    \/ \E p \in universe : RemoteDelete(p)
    \/ StateLost
    \/ \E document \in {"text", "other"} : StateCorrupted(document)
    \/ Start
    \/ PollTick
    \/ WatcherPull
    \/ WatcherPullPush
    \/ PushAll
    \/ Flush
    \/ Stop

Spec == Init /\ [][Next]_vars

\* ------------------------------------------------ the engine's passes, alone
\* One pull or one push of the engine, from every combination of what can
\* have happened to each of two paths.  A situation is reached as the
\* program reaches it: a file is written, pushed, and then changed or
\* deleted on either side.
EnginePaths == CorePaths

Situations == {"absent", "local", "synced", "localNewer", "remoteNewer",
               "localGone", "remoteGone", "bothGone"}

\* the world a moment later
tick(w) == [w EXCEPT !.now = @ + 1]

\* a program other than the daemon writes, or deletes, the local file
written(w, relativePath) ==
    tick([w EXCEPT !.fs = Put(@, joinLocal(relativePath),
                              [mtime |-> w.now, content |-> w.now])])

unlinked(w, relativePath) == [w EXCEPT !.fs = Remove(@, joinLocal(relativePath))]

\* a flush has pushed the file
pushed(w, relativePath) ==
    tick([push([w EXCEPT !.n = 0, !.calls = <<>>], <<joinLocal(relativePath)>>)
             EXCEPT !.untracked = {}])

\* another Drive client changes, or deletes, the remote file of the record
remoteModified(w, relativePath) ==
    tick([w EXCEPT !.remote =
             {IF o.id = w.files[relativePath].gdriveId
              THEN [o EXCEPT !.mtime = w.now, !.content = w.now]
              ELSE o : o \in @}])

remoteDeleted(w, relativePath) ==
    [w EXCEPT !.remote = {o \in @ : o.id # w.files[relativePath].gdriveId}]

\* the file has been written and pushed: both sides and the record agree
synced(w, relativePath) == pushed(written(w, relativePath), relativePath)

situated(w, relativePath, situation) ==
    CASE situation = "absent" -> w
      [] situation = "local" -> written(w, relativePath)
      [] situation = "synced" -> synced(w, relativePath)
      [] situation = "localNewer" -> written(synced(w, relativePath), relativePath)
      [] situation = "remoteNewer" -> remoteModified(synced(w, relativePath), relativePath)
      [] situation = "localGone" -> unlinked(synced(w, relativePath), relativePath)
      [] situation = "remoteGone" -> remoteDeleted(synced(w, relativePath), relativePath)
      [] situation = "bothGone" ->
            remoteDeleted(unlinked(synced(w, relativePath), relativePath), relativePath)

\* the state document is lost and the daemon restarted: a new SyncEngine
restarted(w, lost) ==
    IF lost
    THEN [w EXCEPT !.saved = <<>>, !.files = EmptyMap, !.fileKeys = <<>>, !.folders = EmptyMap]
    ELSE w

\* the world before any file was written
EmptyWorld ==
    [fs |-> EmptyMap, remote |-> {}, nextId |-> 1, now |-> 1,
     files |-> EmptyMap, fileKeys |-> <<>>, folders |-> EmptyMap,
     saved |-> <<>>, n |-> 0, failAt |-> 0, calls |-> <<>>, threw |-> FALSE,
     ret |-> <<>>, filesToPush |-> <<>>, decided |-> EmptyMap, listed |-> {},
     untracked |-> {}, stateOk |-> TRUE, typeError |-> FALSE]

InitEngine ==
    \E sa \in Situations : \E sb \in Situations : \E lost \in BOOLEAN :
       \E w \in {restarted(situated(situated(EmptyWorld, <<NameA>>, sa),
                                     <<NameD, NameB>>, sb), lost)} :
       /\ fs = w.fs
       /\ remote = w.remote
       /\ nextId = w.nextId
       /\ now = w.now
       /\ state = [files |-> w.files, fileKeys |-> w.fileKeys, folders |-> w.folders]
       /\ saved = w.saved
       /\ phase = "engine"
       /\ pendingChanges = <<>>
       /\ debounceTimer = <<>>
    /\ timers = NoTimers
    /\ listing = <<>>
       /\ filesToPush = <<>>
       /\ op = OpAfter(NoSummary, "init", <<>>, NoPass)
       /\ hist = [quiet |-> FALSE, sides |-> {}, base |-> FALSE]
       /\ used = [changes |-> 0, runs |-> 0]
       /\ universe = EnginePaths
       /\ shape = WellShaped

\* the batches push is given: paths of the universe, each at most once
Batches == UNION {Perms({joinLocal(q) : q \in paths}) : paths \in SUBSET EnginePaths} \ {<<>>}

\* SyncEngine.pull, once
EnginePull ==
    /\ phase = "engine"
    /\ phase' = "done"
    /\ \E failAt \in 0..MaxFail : \E remoteFiles \in listFilesRecursive(remote, gdriveFolderId) :
       \E order \in Perms(DOMAIN remoteFiles) :
       \E w \in {pull(World(failAt), remoteFiles, order)} :
          /\ Commit(w, FALSE)
          /\ op' = Op("pull", <<>>, w)
          /\ filesToPush' = IF w.threw THEN <<>> ELSE w.filesToPush
    /\ UNCHANGED <<pendingChanges, debounceTimer, hist, used, universe, timers, listing>>

\* SyncEngine.push of a batch, once, as Watcher.flush calls it
EnginePush ==
    /\ phase = "engine"
    /\ phase' = "done"
    /\ \E failAt \in 0..MaxFail : \E batch \in Batches :
       \E w \in {push(World(failAt), batch)} :
          /\ Commit(w, FALSE)
          /\ op' = Op("flush", batch, w)
    /\ UNCHANGED <<pendingChanges, debounceTimer, filesToPush, hist, used, universe, timers, listing>>

NextEngine == EnginePull \/ EnginePush

SpecEngine == InitEngine /\ [][NextEngine]_vars

\* ------------------------------------------- the running daemon, two paths
\* The daemon after its startup, watching and polling, with two paths.  The
\* startup pass has left nothing to push, so a path starts absent or synced,
\* or (the first path) synced and then changed or deleted by another Drive
\* client.  Local files are written while it runs.
WatcherSituations == {"absent", "synced", "remoteNewer", "remoteGone"}

InitWatcher ==
    \E sa \in WatcherSituations : \E sb \in {"absent", "synced"} :
       \E w \in {situated(situated(EmptyWorld, <<NameA>>, sa), <<NameD, NameB>>, sb)} :
       /\ fs = w.fs
       /\ remote = w.remote
       /\ nextId = w.nextId
       /\ now = w.now
       /\ state = [files |-> w.files, fileKeys |-> w.fileKeys, folders |-> w.folders]
       /\ saved = w.saved
       /\ phase = "running"
       /\ pendingChanges = <<>>
       /\ debounceTimer = <<>>
       /\ timers = startPolling(start(NoTimers))
       /\ listing = <<>>
       /\ filesToPush = <<>>
       /\ op = OpAfter(NoSummary, "init", <<>>, NoPass)
       /\ hist = [quiet |-> FALSE, sides |-> {}, base |-> FALSE]
       /\ used = [changes |-> 0, runs |-> 1]
       /\ universe = EnginePaths
       /\ shape = WellShaped

NextWatcher ==
    \/ \E p \in universe : LocalWrite(p)
    \/ PollTick
    \/ WatcherPull
    \/ WatcherPullPush
    \/ Flush

SpecWatcher == InitWatcher /\ [][NextWatcher]_vars

\* ------------------------------------------- the conflict decision, alone
\* every combination of record, local file and remote time up to MaxTime
Times == 0..MaxTime

DecidePath == <<NameA>>

InitDecide ==
    /\ \E t \in Times :
          remote = {GDriveFile(1, basename(DecidePath), gdriveFolderId, PlainMime, t, 0)}
    /\ fs \in {EmptyMap} \cup
             {[x \in {joinLocal(DecidePath)} |-> [mtime |-> t, content |-> 1]] : t \in Times}
    /\ \E files \in {EmptyMap} \cup
                    {[x \in {DecidePath} |-> FileState(1, lt, gt)] : lt \in Times, gt \in Times} :
          state = [files |-> files,
                   fileKeys |-> IF files = EmptyMap THEN <<>> ELSE <<DecidePath>>,
                   folders |-> EmptyMap]
    /\ nextId = 2
    /\ now = MaxTime + 1
    /\ saved = <<>>
    /\ phase = "decide"
    /\ pendingChanges = <<>>
    /\ debounceTimer = <<>>
    /\ timers = NoTimers
    /\ listing = <<>>
    /\ filesToPush = <<>>
    /\ op = OpAfter(NoSummary, "init", <<>>, NoPass)
    /\ hist = [quiet |-> FALSE, sides |-> {}, base |-> FALSE]
    /\ used = [changes |-> 0, runs |-> 0]
    /\ universe = {DecidePath}
    /\ shape = WellShaped

\* pull's call of shouldDownloadFile for the listed object
Decide ==
    /\ phase = "decide"
    /\ phase' = "decided"
    /\ \E remoteFile \in remote :
          op' = [Op("decide", <<>>, NoPass) EXCEPT
                    !.decided = Put(EmptyMap, DecidePath,
                                    shouldDownloadFile(state.files, fs, DecidePath,
                                                       joinLocal(DecidePath), remoteFile.mtime))]
    /\ UNCHANGED <<fs, remote, nextId, now, state, saved, pendingChanges, debounceTimer,
                   filesToPush, hist, used, universe, timers, listing, shape>>

SpecDecide == InitDecide /\ [][Decide]_vars

\* the inputs and the result of a decision that has been taken
Decided == phase = "decided"

Tracked == DecidePath \in DOMAIN state.files

Record == state.files[DecidePath]

LocalExists == joinLocal(DecidePath) \in DOMAIN fs

LocalMtime == fs[joinLocal(DecidePath)].mtime

RemoteMtime == (CHOOSE o \in remote : TRUE).mtime

Result == op.decided[DecidePath]

\* C3: for a tracked file the decision is Skip when the remote time is not
\* after the recorded one; else Download when the local file is missing or
\* not changed since the record; else Download when the remote is strictly
\* newer than the local file and LocalWins when it is not.  With the record
\* at T0/T0, local T1, remote T2, T0 < T1 < T2 gives Download, and local
\* T3 > T2 gives LocalWins.
C3_TrackedDecision ==
    (Decided /\ Tracked) =>
       /\ (RemoteMtime <= Record.gdriveMtime) => Result = "skip"
       /\ (RemoteMtime > Record.gdriveMtime /\ ~LocalExists) => Result = "download"
       /\ (RemoteMtime > Record.gdriveMtime /\ LocalExists) =>
             /\ (LocalMtime <= Record.localMtime) => Result = "download"
             /\ (LocalMtime > Record.localMtime /\ RemoteMtime > LocalMtime) => Result = "download"
             /\ (LocalMtime > Record.localMtime /\ RemoteMtime <= LocalMtime) => Result = "local-newer"
       /\ (LocalExists /\ Record.gdriveMtime = Record.localMtime
             /\ Record.localMtime < LocalMtime /\ LocalMtime < RemoteMtime) => Result = "download"
       /\ (LocalExists /\ Record.gdriveMtime = Record.localMtime
             /\ Record.gdriveMtime < RemoteMtime /\ RemoteMtime < LocalMtime) => Result = "local-newer"

\* both sides changed since the record, and the local change is the later
C3_Witness ==
    /\ Decided /\ Tracked /\ LocalExists
    /\ Record.gdriveMtime = 0 /\ Record.localMtime = 0
    /\ RemoteMtime = 2 /\ LocalMtime = 3
    /\ Result = "local-newer"

Converged ==
    \A p \in universe : ~isExcluded(p) =>
        (joinLocal(p) \in DOMAIN fs <=> \E o \in ObjectsAt(remote, p) : Downloadable(o))

\* a pull from the current state decides skip for every file and returns
\* nothing to push
FurtherPullSkips ==
    \A remoteFiles \in listFilesRecursive(remote, gdriveFolderId) :
    \A order \in Perms(DOMAIN remoteFiles) :
        LET w == pull(World(0), remoteFiles, order) IN
        /\ ~w.threw
        /\ w.filesToPush = <<>>
        /\ \A p \in DOMAIN w.decided : w.decided[p] = "skip"

\* the startup cycle has just completed without error, nothing changed
\* since the daemon started, and while it was offline one side at most
\* changed, starting from two sides in sync
AfterQuietStartup ==
    /\ phase = "running"
    /\ op.kind = "pushAll"
    /\ hist.quiet
    /\ hist.base
    /\ hist.sides \in {{}, {"local"}, {"remote"}}

\* C1: after a startup cycle that completes without error and without a
\* further change, a synced path exists locally exactly when it exists
\* remotely, and a further pull skips every file and returns nothing to
\* push, whichever single side changed while the daemon was offline.
\* (Stated for the paths with ordinary names.)
C1_Convergence ==
    (AfterQuietStartup /\ universe \subseteq CorePaths) => (Converged /\ FurtherPullSkips)

\* ---------------------------------------------------------- pull and push
\* the step is a pull that completed
PullStep == op'.kind = "pull" /\ ~op'.threw

PushStep == op'.kind \in {"pullPush", "pushAll", "flush"} /\ ~op'.threw

\* the <<path, folder>> pairs of the remote tree below a folder
RECURSIVE folderEntries(_, _, _)
folderEntries(remoteTree, folderId, basePath) ==
    UNION { {<<basePath \o <<o.name>>, o>>} \cup
            folderEntries(remoteTree, o.id, basePath \o <<o.name>>)
          : o \in {x \in listFiles(remoteTree, folderId) : isFolder(x)} }

\* the remote folders at a relative directory path
FoldersAt(remoteTree, dir) ==
    {e[2] : e \in {x \in folderEntries(remoteTree, gdriveFolderId, <<>>) : x[1] = dir}}

Prefixes(dir) == {SubSeq(dir, 1, k) : k \in 1..Len(dir)}

\* the calls of the pass just run, by function and path
CallsOf(o, fn, relativePath) ==
    {j \in 1..Len(o.calls) : o.calls[j].fn = fn /\ o.calls[j].path = relativePath}

BaselineSynced(files) ==
    \A p \in DOMAIN files : \A o \in remote :
        ( /\ o.id = files[p].gdriveId
          /\ o.mtime = files[p].gdriveMtime
          /\ joinLocal(p) \in DOMAIN fs
          /\ fs[joinLocal(p)].mtime = files[p].localMtime ) =>
        o.content = fs[joinLocal(p)].content

\* C6: every record of state.files, in memory and in the persisted
\* document, holds a local and a remote mtime observed when the two sides
\* of its path had just been made equal by an upload, update or download;
\* there is no record for two sides known to differ.
C6_BaselineIsLastSync ==
    BaselineSynced(state.files) /\ BaselineSynced(loadState(saved).files)

\* -------------------------------------------------------------- exclusion
PushKinds == {"pullPush", "pushAll", "flush"}

\* the calls that carry a file or create a folder
TransferCalls == {"uploadFile", "updateFile", "downloadFile", "deleteFile", "createFolder"}

\* C7: no key of state.files or state.folders, in memory or persisted, has
\* an excluded name as its last segment, and no pass makes an upload,
\* update, download, delete or createFolder call for a path whose basename
\* is excluded.
C7_ExcludedNeverTracked ==
    /\ \A st \in {state, loadState(saved)} :
          /\ \A k \in DOMAIN st.files : ~isExcluded(k)
          /\ \A k \in DOMAIN st.folders : ~isExcluded(k)
    /\ \A j \in 1..Len(op.calls) :
          op.calls[j].fn \in TransferCalls => ~isExcluded(op.calls[j].path)

\* C8: exclusion is by exact basename everywhere: the watcher reports a
\* changed file to onChange exactly when its basename is not an excluded
\* name, and pushAll hands push exactly the local files whose basename is
\* not an excluded name; a name that only ends with an excluded name is
\* treated like any other.
C8_ExactBasenameEverywhere ==
    [][ /\ (op'.kind = "env" /\ Watching) =>
              \A p \in universe :
                 (joinLocal(p) \in DOMAIN fs' /\
                     (joinLocal(p) \notin DOMAIN fs \/ fs'[joinLocal(p)] # fs[joinLocal(p)])) =>
                 (joinLocal(p) \in Range(pendingChanges') <=> ~isExcluded(p))
        /\ op'.kind = "pushAll" =>
              \A p \in universe :
                 (joinLocal(p) \in Range(op'.batch) <=>
                     (joinLocal(p) \in DOMAIN fs /\ ~isExcluded(p))) ]_vars

\* ------------------------------------------------- round trip, idempotence
\* C9: when a push has uploaded a new file and recorded it, and a pull
\* follows (its listing read after the push) with no change in between, the
\* pull decides skip for the path:
\* it downloads nothing and does not return the path for pushing.  (The
\* pull takes no decision at all for the path when the listing shows a
\* Google document of the same name in its place.)
C9_RoundTrip ==
    (op.kind = "pull" /\ ~op.threw /\ ~op.stale /\ op.prev.kind \in PushKinds /\ ~op.prev.threw) =>
       \A p \in op.prev.uploaded :
          /\ p \in DOMAIN op.decided => op.decided[p] = "skip"
          /\ (\A o \in ObjectsAt(remote, p) : Downloadable(o)) => p \in DOMAIN op.decided
          /\ joinLocal(p) \notin Range(op.toPush)
          /\ CallsOf(op, "downloadFile", p) = {}
          /\ p \in DOMAIN state.files

\* a pull right after a push that uploaded a new file
C9_Witness ==
    /\ op.kind = "pull" /\ ~op.threw /\ ~op.stale
    /\ op.prev.kind \in PushKinds /\ ~op.prev.threw
    /\ \E p \in op.prev.uploaded : p \in DOMAIN op.decided /\ op.decided[p] = "skip"

\* the step is a completed push of the batch that the step before it
\* pushed, also completely
SecondPush ==
    /\ op.kind \in PushKinds /\ ~op.threw
    /\ op'.kind \in PushKinds /\ ~op'.threw
    /\ op'.batch = op.batch
    /\ op.batch # <<>>

\* C10: a second push of the same unchanged batch makes, for each file of
\* the batch, exactly one call, an updateFile on the recorded ID, and no
\* uploadFile; the remote objects are as many as before it and each path
\* keeps its ID.
C10_PushIdempotent ==
    [][SecondPush =>
         /\ \A j \in 1..Len(op'.calls) : op'.calls[j].fn = "updateFile"
         /\ \A i \in 1..Len(op.batch) :
               LET p == getRelativePath(op.batch[i]) IN
               (op.batch[i] \in DOMAIN fs /\ ~isExcluded(p)) =>
                  /\ p \in DOMAIN state.files
                  /\ Cardinality(CallsOf(op', "updateFile", p)) = 1
                  /\ \A j \in CallsOf(op', "updateFile", p) :
                        op'.calls[j].id = state.files[p].gdriveId
         /\ Cardinality(remote') = Cardinality(remote)
         /\ DOMAIN state'.files = DOMAIN state.files
         /\ \A p \in DOMAIN state.files : state'.files[p].gdriveId = state.files[p].gdriveId]_vars

\* a batch with a new file has been pushed twice in a row: the first push
\* uploaded it, the second updated it
C10_Witness ==
    /\ op.kind \in PushKinds /\ ~op.threw
    /\ op.prev.kind \in PushKinds /\ ~op.prev.threw
    /\ op.prev.batch = op.batch
    /\ \E p \in op.prev.uploaded : CallsOf(op, "updateFile", p) # {}

\* ------------------------------------------------ the decision is a function
\* the three actions pull knows
Actions == {"download", "skip", "local-newer"}

C18_StaleRecordDropped ==
    [][PullStep =>
         \A p \in DOMAIN state.files :
            (p \notin op'.listed /\ joinLocal(p) \notin DOMAIN fs) =>
               /\ p \notin DOMAIN state'.files
               /\ joinLocal(p) \notin Range(op'.toPush)
               /\ \A j \in 1..Len(op'.calls) : op'.calls[j].path # p
               /\ joinLocal(p) \notin DOMAIN fs']_vars

\* a pull has just dropped the record of a path that is neither listed nor
\* there locally, and returned nothing for it
C18_Witness ==
    /\ op.kind = "pull" /\ ~op.threw
    /\ \E p \in op.untracked :
          /\ p \notin op.listed
          /\ joinLocal(p) \notin DOMAIN fs
          /\ joinLocal(p) \notin Range(op.toPush)
          /\ p \notin DOMAIN state.files

\* ----------------------------------------------------- folders seen by pull
\* C20: after a pull that completes, every folder of the remote tree below
\* the root is a key of state.folders, by its relative path, with the
\* folder's remote ID as its value.
C20_PullRecordsFolders ==
    (op.kind = "pull" /\ ~op.threw) =>
       \A e \in folderEntries(remote, gdriveFolderId, <<>>) :
          /\ e[1] \in DOMAIN state.folders
          /\ state.folders[e[1]] = e[2].id

\* --------------------------------------------------------- a push that fails
\* the step is a push that threw
PushThrew == op'.kind \in PushKinds /\ op'.threw

\* the calls push makes for an entry: those for its path and for the
\* folders above it
EntryCalls(calls, relativePath) ==
    {j \in 1..Len(calls) : IsPrefix(calls[j].path, relativePath)}

\* the calls that can make push throw
ThrowingCalls == {"updateFile", "uploadFile", "findFolder", "createFolder"}

\* C11: when a remote call throws while push works on entry k of its
\* batch, that call is the last of the pass and one of updateFile,
\* uploadFile, findFolder and createFolder; the state document is not
\* written; for an entry after k no call is made and its record and remote
\* file stay as they were; for an entry before k the call made for it is
\* not repeated, and what it did stays: the uploaded file and its record,
\* the updated content and the new record, the record removed with a
\* deletion.
C11_PushAborts ==
    [][PushThrew =>
         /\ op'.calls # <<>>
         /\ op'.calls[Len(op'.calls)].fn \in ThrowingCalls
         /\ saved' = saved
         /\ \E k \in 1..Len(op'.batch) :
               /\ Len(op'.calls) \in EntryCalls(op'.calls, getRelativePath(op'.batch[k]))
               /\ \A i \in (k + 1)..Len(op'.batch) :
                     \E p \in {getRelativePath(op'.batch[i])} :
                        /\ EntryCalls(op'.calls, p) = {}
                        /\ (p \in DOMAIN state'.files) = (p \in DOMAIN state.files)
                        /\ p \in DOMAIN state.files => state'.files[p] = state.files[p]
                        /\ ObjectsAt(remote', p) = ObjectsAt(remote, p)
               /\ \A i \in 1..(k - 1) :
                     \E p \in {getRelativePath(op'.batch[i])} :
                        /\ Cardinality({j \in EntryCalls(op'.calls, p) :
                                           op'.calls[j].fn \in {"uploadFile", "updateFile",
                                                                 "deleteFile"}}) <= 1
                        /\ \A j \in CallsOf(op', "uploadFile", p) :
                              /\ \E o \in remote' : o.id = op'.calls[j].id
                              /\ p \in DOMAIN state'.files
                              /\ state'.files[p].gdriveId = op'.calls[j].id
                        /\ \A j \in CallsOf(op', "updateFile", p) :
                              /\ p \in DOMAIN state'.files
                              /\ state'.files[p].localMtime = fs[op'.batch[i]].mtime
                              /\ \A o \in remote' :
                                    o.id = op'.calls[j].id =>
                                       o.content = fs[op'.batch[i]].content
                        /\ \A j \in CallsOf(op', "deleteFile", p) :
                              p \notin DOMAIN state'.files]_vars

\* a push of two entries threw on the second after it had uploaded the
\* first: the file is there remotely and recorded in memory, and the
\* state document does not have the record
C11_Witness ==
    /\ op.kind \in PushKinds /\ op.threw
    /\ Len(op.batch) = 2
    /\ EntryCalls(op.calls, getRelativePath(op.batch[2])) # {}
    /\ \E j \in CallsOf(op, "uploadFile", getRelativePath(op.batch[1])) :
          /\ \E o \in remote : o.id = op.calls[j].id
          /\ getRelativePath(op.batch[1]) \in DOMAIN state.files
          /\ getRelativePath(op.batch[1]) \notin DOMAIN loadState(saved).files

\* ------------------------------------------------- a local deletion in push
\* the step is a push, and its loop came to entry i of the batch
Reached(i) ==
    /\ op'.kind \in PushKinds
    /\ i \in 1..Len(op'.batch)
    /\ \/ ~op'.threw
       \/ \E k \in (i + 1)..Len(op'.batch) :
             Len(op'.calls) \in EntryCalls(op'.calls, getRelativePath(op'.batch[k]))

\* the document saveState writes for a state
Document(st) == <<[files |-> st.files, fileKeys |-> st.fileKeys, folders |-> st.folders]>>

\* C12: for a path of the batch that is not on disk (and not excluded):
\* if it has a record, push makes one call for it, deleteFile on the
\* recorded ID, and removes the record, whether the remote file is there,
\* is already gone, or the deletion fails; a failed deletion does not make
\* push throw, so the entries after it are processed and the state is
\* saved at the end; if the path has no record, push makes no call for it
\* and it still has no record.
C12_LocalDeletion ==
    [][op'.kind \in PushKinds =>
         /\ op'.threw => op'.calls[Len(op'.calls)].fn # "deleteFile"
         /\ ~op'.threw /\ op'.batch # <<>> => saved' = Document(state')
         /\ \A i \in 1..Len(op'.batch) :
               \E p \in {getRelativePath(op'.batch[i])} :
                  (Reached(i) /\ op'.batch[i] \notin DOMAIN fs /\ ~isExcluded(p)) =>
                     IF p \in DOMAIN state.files
                     THEN /\ Cardinality(EntryCalls(op'.calls, p)) = 1
                          /\ \A j \in EntryCalls(op'.calls, p) :
                                /\ op'.calls[j].fn = "deleteFile"
                                /\ op'.calls[j].id = state.files[p].gdriveId
                          /\ p \notin DOMAIN state'.files
                     ELSE /\ EntryCalls(op'.calls, p) = {}
                          /\ p \notin DOMAIN state'.files]_vars

\* a push of two entries whose first deletion failed (the remote file is
\* still there): the record is gone, the second entry was uploaded and the
\* state was saved
C12_Witness ==
    /\ op.kind \in PushKinds /\ ~op.threw
    /\ Len(op.batch) = 2
    /\ \E j \in CallsOf(op, "deleteFile", getRelativePath(op.batch[1])) :
          \E o \in remote : o.id = op.calls[j].id
    /\ getRelativePath(op.batch[1]) \in op.untracked
    /\ CallsOf(op, "uploadFile", getRelativePath(op.batch[2])) # {}
    /\ saved = Document(state)

\* ------------------------------------------------------- loading the state
\* C13: when the state file is missing, holds text that is not JSON, or
\* holds JSON that is not of the shape {files, folders}, the engine starts
\* with the state {files: {}, folders: {}}, and no push or pull pass
\* throws because of what the state file held.
C13_LoadNeverFatal ==
    /\ (op.kind = "start" /\ saved = <<>>) => (shape.state /\ state = EmptyState)
    /\ ~op.typeError

\* ------------------------------------------------------------- the debounce
\* chokidar reports a change of the path in this step
ChangeEvent(p) ==
    /\ op'.kind = "env"
    /\ timers.watcher
    /\ ~ignored(joinLocal(p))
    /\ \/ (joinLocal(p) \in DOMAIN fs) # (joinLocal(p) \in DOMAIN fs')
       \/ joinLocal(p) \in DOMAIN fs /\ joinLocal(p) \in DOMAIN fs' /\
          fs'[joinLocal(p)] # fs[joinLocal(p)]

\* the step is a flush that pushes
FlushStep == op'.kind = "flush" /\ op' # op

\* C15: at most one debounce timer is armed at any time.  A change event
\* adds its path to the pending set, keeps the paths already pending, and
\* leaves exactly one timer armed, the one the Watcher holds.  A flush runs
\* when the timer held, set by the last change event, fires: it passes the
\* whole pending set to push as one batch and leaves the pending set empty
\* and no timer armed.
C15_Debounce ==
    [][ /\ Cardinality(timers'.debounce) <= 1
        /\ \A p \in universe : ChangeEvent(p) =>
              /\ joinLocal(p) \in Range(pendingChanges')
              /\ Range(pendingChanges) \subseteq Range(pendingChanges')
              /\ timers'.debounce = Range(debounceTimer')
              /\ Cardinality(timers'.debounce) = 1
        /\ FlushStep =>
              /\ timers.debounce # {}
              /\ timers.debounce = Range(debounceTimer)
              /\ pendingChanges # <<>>
              /\ op'.batch = pendingChanges
              /\ pendingChanges' = <<>>
              /\ timers'.debounce = {} ]_vars

\* two change events, of two paths, and then one flush with both
C15_Witness ==
    /\ op.kind = "flush"
    /\ Len(op.batch) = 2
    /\ pendingChanges = <<>>
    /\ timers.debounce = {}

\* ------------------------------------------------- failures and the scheduler
\* the step is a pass of the running daemon, started by a poll tick or by
\* the debounce timer, that ended with an error
ScheduledPassThrew ==
    /\ phase \in {"running", "listing", "polled"}
    /\ op'.kind \in {"pull", "pullPush", "flush"}
    /\ op' # op
    /\ op'.threw

\* C16: when a pass started by a poll tick (its pull, or the push after it)
\* or by a debounce flush throws, the process goes on: the poll interval
\* stays armed and the subscription open, the state in memory is the one
\* the pass left, and the daemon is ready for the next tick unless a pull
\* is still waiting for its listing.
C16_SchedulerSurvives ==
    [][ ScheduledPassThrew =>
          /\ phase' \in {"running", "listing"}
          /\ phase' = "listing" => (phase = "listing" /\ op'.kind = "flush")
          /\ timers'.poll
          /\ timers'.watcher
          /\ filesToPush' = <<>>
          /\ op'.kind = "flush" => pendingChanges' = <<>> ]_vars

\* a pass of a poll tick has thrown and the next tick has come
C16_Witness ==
    /\ op.kind = "tick"
    /\ op.prev.kind \in {"pull", "pullPush"}
    /\ op.prev.threw
    /\ phase = "listing"
    /\ timers.watcher

\* ------------------------------------------------------------------ shutdown
\* C17: when Watcher.stop() has run, the subscription is closed and neither
\* a debounce timer nor the poll interval is armed, and a pass in flight
\* (a pull waiting for its listing, or the push that follows a pull) is
\* still in flight, to complete or fail.
C17_Shutdown ==
    [][ op'.kind = "stop" =>
          /\ ~timers'.watcher
          /\ timers'.debounce = {}
          /\ ~timers'.poll
          /\ phase \in {"listing", "polled"} =>
                /\ phase' = phase
                /\ listing' = listing
                /\ filesToPush' = filesToPush ]_vars

\* --------------------------------------------------- a flush during a pull
\* the step completes a pull of a poll tick, and the step before it was a
\* completed flush: the flush ran while the pull waited for its listing
PullAfterFlush ==
    /\ phase = "listing"
    /\ op.kind = "flush" /\ ~op.threw
    /\ op'.kind = "pull" /\ ~op'.threw

\* the paths whose records the flush wrote
FlushWrote == {p \in DOMAIN state.files : joinLocal(p) \in Range(op.batch)}

\* C14 as stated: after a flush and a pull that ran at the same time, the
\* persisted document lacks a record the flush wrote.
C14_LostUpdate ==
    [][ (PullAfterFlush /\ FlushWrote # {}) =>
           \E p \in FlushWrote : p \notin DOMAIN loadState(saved').files ]_vars

\* C14, amended: the document the pull writes is the one state in memory
\* that both flows work on.  It holds every record the flush wrote for a
\* path of pull's listing, with the remote ID the flush recorded; a record
\* the flush wrote is missing from it only when the listing, read before
\* the flush, lacks the path, and then pull has returned the path for
\* pushing.
C14_SharedState ==
    [][ PullAfterFlush =>
          /\ saved' = Document(state')
          /\ \A p \in FlushWrote :
                IF p \in op'.listed
                THEN /\ p \in DOMAIN loadState(saved').files
                     /\ loadState(saved').files[p].gdriveId = state.files[p].gdriveId
                ELSE /\ p \notin DOMAIN loadState(saved').files
                     /\ joinLocal(p) \in Range(filesToPush') ]_vars

\* a flush has run during a pull and written two records: pull has kept the
\* one whose path its listing has and dropped the other
C14_Witness ==
    /\ op.kind = "pull" /\ op.stale /\ ~op.threw
    /\ op.prev.kind = "flush" /\ ~op.prev.threw
    /\ \E p \in op.prev.uploaded : p \in op.untracked /\ joinLocal(p) \in Range(filesToPush)
    /\ \E q \in DOMAIN loadState(saved).files :
          joinLocal(q) \in Range(op.prev.batch) /\ q \in op.listed

\* ------------------------------------------------------- local-newer, carried
\* the paths for which the pull decided local-newer
LocalWins(o) == {p \in DOMAIN o.decided : o.decided[p] = "local-newer"}

\* the step is the push of Watcher.pull, right after its pull completed
PushAfterPull == op.kind = "pull" /\ ~op.threw /\ op'.kind = "pullPush"

\* C21: a pull that decides local-newer for a path makes no remote call
\* for the path and leaves its remote objects alone, sets the record to the
\* ID and modified time of the listed object and to the local file's time,
\* and returns the path.  The push that follows makes no call for the path
\* but updateFile on that ID, once when it completes, and never uploadFile:
\* the remote objects at the path keep their IDs and none is added.
C21_LocalWins ==
    [][ /\ PullStep =>
              \A p \in LocalWins(op') :
                 /\ \A j \in 1..Len(op'.calls) : op'.calls[j].path # p
                 /\ ObjectsAt(remote', p) = ObjectsAt(remote, p)
                 /\ p \in DOMAIN state'.files
                 /\ \E m \in Listings :
                       /\ p \in DOMAIN m
                       /\ state'.files[p] =
                             FileState(m[p].id, fs[joinLocal(p)].mtime, m[p].mtime)
                 /\ joinLocal(p) \in Range(filesToPush')
        /\ PushAfterPull =>
              \A p \in LocalWins(op) :
                 /\ CallsOf(op', "uploadFile", p) = {}
                 /\ p \in DOMAIN state.files
                 /\ \A j \in 1..Len(op'.calls) :
                       op'.calls[j].path = p =>
                          /\ op'.calls[j].fn = "updateFile"
                          /\ op'.calls[j].id = state.files[p].gdriveId
                 /\ ~op'.threw => Cardinality(CallsOf(op', "updateFile", p)) = 1
                 /\ {o.id : o \in ObjectsAt(remote', p)} = {o.id : o \in ObjectsAt(remote, p)}
      ]_vars

\* a pull has decided local-newer for a path that had no record, and the
\* push after it has updated the remote object of the listing
C21_Witness ==
    /\ op.kind = "pullPush" /\ ~op.threw
    /\ op.prev.kind = "pull"
    /\ \E p \in universe :
          /\ joinLocal(p) \in Range(op.batch)
          /\ CallsOf(op, "updateFile", p) # {}
          /\ Cardinality(ObjectsAt(remote, p)) = 1
          /\ p \in DOMAIN state.files
          /\ \A o \in ObjectsAt(remote, p) :
                o.id = state.files[p].gdriveId /\ o.content = fs[joinLocal(p)].content

\* ------------------------------------------------------- recorded folders
\* the step is a pass of the engine, within one session
PassInSession ==
    /\ op' # op
    /\ op'.kind \in PushKinds \cup {"pull"}
    /\ phase # "offline"
    /\ phase' # "offline"

ReturnedAt(o, p) == {i \in 1..Len(o.toPush) : o.toPush[i] = joinLocal(p)}

\* C23: a pull asks for the listing once, as its first call.  When it
\* throws, in the listing or while it handles an entry, it has deleted no
\* record.  When it completes, every entry of the listing that is neither
\* excluded nor a Google document has a decision, the records it deleted
\* are those of the paths that the listing it started with lacks, whatever
\* the remote tree holds by then, and the paths returned for them come
\* after those returned for local-newer decisions.
C23_PullOrder ==
    [][ (op'.kind = "pull" /\ op' # op) =>
          /\ op'.calls[1].fn = "listFilesRecursive"
          /\ \A j \in 2..Len(op'.calls) : op'.calls[j].fn # "listFilesRecursive"
          /\ op'.threw => (op'.untracked = {} /\ saved' = saved)
          /\ ~op'.threw =>
                \E m \in Listings :
                   /\ op'.listed = DOMAIN m
                   /\ \A p \in DOMAIN m :
                         (~isExcluded(p) /\ Downloadable(m[p])) => p \in DOMAIN op'.decided
                   /\ op'.untracked = {p \in DOMAIN state.files : p \notin DOMAIN m}
                   /\ \A p \in LocalWins(op') : \A q \in op'.untracked :
                         \A i \in ReturnedAt(op', p) : \A k \in ReturnedAt(op', q) : i < k
      ]_vars

\* a pull has completed whose listing was read before a file was uploaded:
\* the remote tree has the file, the listing has not, and the pull has
\* deleted the record and returned the path
C23_Witness ==
    /\ op.kind = "pull" /\ ~op.threw /\ op.stale
    /\ \E p \in op.untracked :
          /\ p \notin op.listed
          /\ ObjectsAt(remote, p) # {}
          /\ joinLocal(p) \in Range(filesToPush)

\* ------------------------------------------------ uploads under interleaving
\* C24: whichever way the flush and the poll pass of one engine interleave,
\* a pass calls uploadFile for a path at most once and only when the remote
\* tree holds no object at the path, and calls createFolder for a directory
\* path at most once and only when the remote tree holds no folder there.
C24_NoDuplicateUpload ==
    [][ (op' # op /\ op'.kind \in PushKinds) =>
          \A p \in universe :
             /\ Cardinality(CallsOf(op', "uploadFile", p)) <= 1
             /\ CallsOf(op', "uploadFile", p) # {} => ObjectsAt(remote, p) = {}
             /\ \A d \in Prefixes(dirname(p)) :
                   /\ Cardinality(CallsOf(op', "createFolder", d)) <= 1
                   /\ CallsOf(op', "createFolder", d) # {} => FoldersAt(remote, d) = {}
      ]_vars

\* ---------------------------------------------- a record written during a pull
\* C25: when a flush has uploaded a new file and written its record while
\* a pull waited for its listing, the pull, when it completes, keeps the
\* record as the flush wrote it and does not return the path for pushing.
C25_PushedRecordSurvives ==
    [][ (PullAfterFlush /\ ~op'.threw) =>
          \A p \in Uploaded(op.calls) :
             p \in DOMAIN state.files =>
                /\ p \in DOMAIN state'.files
                /\ state'.files[p] = state.files[p]
                /\ p \in DOMAIN loadState(saved').files
                /\ joinLocal(p) \notin Range(filesToPush') ]_vars

\* ------------------------------------------------ a local deletion, and after
\* C26: when a push has run handleLocalDelete for a path and a pull
\* follows, its listing read after the push and nothing changed in
\* between, the pull does not write the file of that path.
C26_DeletionNotUndone ==
    [][ (op'.kind = "pull" /\ op' # op /\ ~op'.stale /\ op'.prev.kind \in PushKinds) =>
          \A p \in op'.prev.deleted :
             joinLocal(p) \notin DOMAIN fs => joinLocal(p) \notin DOMAIN fs' ]_vars

\* --------------------------------------------- local-newer, when the push fails
\* the local content of a tracked path is not what its remote object holds
NotUploaded(p) ==
    /\ p \in DOMAIN state.files
    /\ joinLocal(p) \in DOMAIN fs
    /\ \E o \in remote :
          o.id = state.files[p].gdriveId /\ o.content # fs[joinLocal(p)].content

\* C27: when the push that followed a pull has failed, leaving the local
\* content of a path that pull returned with its record (a local-newer
\* decision) not uploaded, the pull of the next poll tick, with nothing
\* changed in between, returns the path for pushing again.
C27_LocalWinsRetried ==
    [][ ( /\ op'.kind = "pull" /\ op' # op /\ ~op'.stale /\ ~op'.threw
          /\ op'.prev.kind = "pullPush" /\ op'.prev.threw ) =>
          \A p \in universe :
             (joinLocal(p) \in Range(op'.prev.batch) /\ NotUploaded(p)) =>
                joinLocal(p) \in Range(op'.toPush) ]_vars

\* ------------------------------------------------------ no change is dropped
\* C28: the path of a change event is pending after the event, with a
\* timer armed; every pending path is in the batch of the flush that runs
\* next; and when the push of that batch fails, the paths of the batch are
\* pending again with a timer armed, so that a later flush hands them to
\* push once more.
C28_NoEventDropped ==
    [][ /\ \A p \in universe : ChangeEvent(p) =>
              /\ joinLocal(p) \in Range(pendingChanges')
              /\ timers'.debounce # {}
        /\ FlushStep => Range(pendingChanges) \subseteq Range(op'.batch)
        /\ (FlushStep /\ op'.threw) =>
              /\ Range(op'.batch) \subseteq Range(pendingChanges')
              /\ timers'.debounce # {} ]_vars
====
